---- MODULE Spec2Model ----
(***************************************************************************)
(* A model of ned (src/src/main.rs): the per-file match/replace engine     *)
(* (process_file, process_text), the run loop (process_files) and the file *)
(* selection (get_files).                                                  *)
(*                                                                         *)
(* Text is a sequence of one-character strings.  The regular-expression    *)
(* engine is an external library; it is modelled for three pattern shapes  *)
(* (a literal, c+, and (?P<n>L1)|L2) by the operations the program calls:  *)
(* is_match, find_iter, captures, replace_all.                             *)
(*                                                                         *)
(* The output sink is one that does not fail (a Vec<u8>, stdout), so the   *)
(* errors of process_file are those of its source: reading, decoding and   *)
(* rewriting.  The debugging println! of get_files (line 271) goes to the  *)
(* process's stdout, not to a value of the program, and is left out.       *)
(***************************************************************************)
EXTENDS Integers, Sequences, FiniteSets, TLC

\* ------------------------------------------------------------------ bounds
MaxLen == 3
MaxFiles == 3
MaxRoots == 2

NL == "\n"

\* Option<T>
None == [some |-> FALSE]
Some(v) == [some |-> TRUE, v |-> v]

\* ---------------------------------------------------------------- strings
RECURSIVE SeqsUpTo(_, _)
SeqsUpTo(S, n) ==
  IF n = 0 THEN {<<>>}
  ELSE LET shorter == SeqsUpTo(S, n - 1)
       IN  shorter \cup {Append(s, c) : s \in {t \in shorter : Len(t) = n - 1}, c \in S}

StartsWith(t, p) ==
  /\ Len(p) <= Len(t)
  /\ SubSeq(t, 1, Len(p)) = p

Tail0(t, k) == SubSeq(t, k, Len(t))

\* ------------------------------------------------- the regex engine (model)
Lit(s) == [kind |-> "lit", s |-> s]
Plus(c) == [kind |-> "plus", c |-> c]
Alt(s1, s2) == [kind |-> "alt", s1 |-> s1, s2 |-> s2]

LitAt(s, t, i) ==
  /\ i + Len(s) - 1 <= Len(t)
  /\ SubSeq(t, i, i + Len(s) - 1) = s

RECURSIVE RunLen(_, _, _)
RunLen(c, t, i) ==
  IF i <= Len(t) /\ t[i] = c THEN 1 + RunLen(c, t, i + 1) ELSE 0

\* Length of the match of pattern p anchored at position i of t; 0 = no match
\* (every modelled pattern matches at least one character).
MatchLenAt(p, t, i) ==
  CASE p.kind = "lit"  -> IF LitAt(p.s, t, i) THEN Len(p.s) ELSE 0
    [] p.kind = "plus" -> RunLen(p.c, t, i)
    [] p.kind = "alt"  -> IF LitAt(p.s1, t, i) THEN Len(p.s1)
                          ELSE IF LitAt(p.s2, t, i) THEN Len(p.s2) ELSE 0

\* Leftmost position >= i where p matches, 0 if there is none.
RECURSIVE FindFrom(_, _, _)
FindFrom(p, t, i) ==
  IF i > Len(t) THEN 0
  ELSE IF MatchLenAt(p, t, i) > 0 THEN i
  ELSE FindFrom(p, t, i + 1)

\* Regex::is_match
IsMatch(p, t) == FindFrom(p, t, 1) # 0

\* Regex::find_iter: the non-overlapping match spans <<start, end>>, left to
\* right (1-based, inclusive).
RECURSIVE FindIterFrom(_, _, _)
FindIterFrom(p, t, i) ==
  LET s == FindFrom(p, t, i)
  IN  IF s = 0 THEN <<>>
      ELSE LET e == s + MatchLenAt(p, t, s) - 1
           IN  <<(<<s, e>>)>> \o FindIterFrom(p, t, e + 1)

FindIter(p, t) == FindIterFrom(p, t, 1)

\* Regex::captures on the leftmost match: group 0 is the whole match, group 1
\* (named "n") exists only in an "alt" pattern and participates only when the
\* first alternative matched.
Captures(p, t) ==
  LET s == FindFrom(p, t, 1)
  IN  IF s = 0 THEN None
      ELSE LET m == SubSeq(t, s, s + MatchLenAt(p, t, s) - 1)
           IN  Some([g0 |-> Some(m),
                     g1 |-> IF p.kind = "alt" /\ LitAt(p.s1, t, s)
                            THEN Some(m) ELSE None])

\* Captures::at(index)
CapturesAt(caps, index) ==
  IF index = 0 THEN caps.g0 ELSE IF index = 1 THEN caps.g1 ELSE None

\* Captures::name(group)
CapturesName(caps, name) == IF name = <<"n">> THEN caps.g1 ELSE None

\* Expansion of a replacement template for one match: the token "$0" stands
\* for the whole match, every other token for itself.
RECURSIVE Expand(_, _)
Expand(rep, m) ==
  IF rep = <<>> THEN <<>>
  ELSE (IF Head(rep) = "$0" THEN m ELSE <<Head(rep)>>) \o Expand(Tail(rep), m)

\* Regex::replace_all
RECURSIVE ReplaceAllFrom(_, _, _, _)
ReplaceAllFrom(p, t, rep, i) ==
  LET s == FindFrom(p, t, i)
  IN  IF s = 0 THEN Tail0(t, i)
      ELSE LET e == s + MatchLenAt(p, t, s) - 1
           IN  SubSeq(t, i, s - 1) \o Expand(rep, SubSeq(t, s, e))
                 \o ReplaceAllFrom(p, t, rep, e + 1)

ReplaceAll(p, t, rep) == ReplaceAllFrom(p, t, rep, 1)

\* ansi_term: Red.bold().paint(s).to_string()
ColorOn == "ESC[1;31m"
ColorOff == "ESC[0m"
Paint(s) == <<ColorOn>> \o s \o <<ColorOff>>

\* str::lines(): the pieces between newlines, without a final empty piece.
RECURSIVE FirstNL(_, _)
FirstNL(t, i) ==
  IF i > Len(t) THEN 0 ELSE IF t[i] = NL THEN i ELSE FirstNL(t, i + 1)

RECURSIVE Lines(_)
Lines(t) ==
  IF t = <<>> THEN <<>>
  ELSE LET k == FirstNL(t, 1)
       IN  IF k = 0 THEN <<t>>
           ELSE <<SubSeq(t, 1, k - 1)>> \o Lines(Tail0(t, k + 1))

\* ------------------------------------------------------------ process_text
\* str::trim on the group argument (spaces only occur at the ends here).
RECURSIVE TrimLeft(_)
TrimLeft(g) == IF g # <<>> /\ Head(g) = " " THEN TrimLeft(Tail(g)) ELSE g

RECURSIVE TrimRight(_)
TrimRight(g) ==
  IF g # <<>> /\ g[Len(g)] = " " THEN TrimRight(SubSeq(g, 1, Len(g) - 1)) ELSE g

Trim(g) == TrimRight(TrimLeft(g))

\* str::parse::<usize> for the one-digit numerals of the model.
ParseUsize(g) ==
  IF g = <<"0">> THEN Some(0)
  ELSE IF g = <<"1">> THEN Some(1)
  ELSE IF g = <<"2">> THEN Some(2)
  ELSE None

\* The colorized form of emitted text: re.replace_all(text, paint("$0")).
Colorize(p, colors, t) == IF colors THEN ReplaceAll(p, t, Paint(<<"$0">>)) ELSE t

\* The concatenation of the texts of the spans of find_iter.
RECURSIVE OnlyMatches(_, _, _, _)
OnlyMatches(p, colors, t, spans) ==
  IF spans = <<>> THEN <<>>
  ELSE Colorize(p, colors, SubSeq(t, Head(spans)[1], Head(spans)[2]))
         \o OnlyMatches(p, colors, t, Tail(spans))

\* The branch of process_text that handles a unit: the first of the
\* if / else-if chain whose condition holds.
Branch(o) ==
  IF o.group.some THEN "group"
  ELSE IF o.no_match THEN "no_match"
  ELSE "default"

GroupText(o, p, colors, text) ==
  LET caps == Captures(p, text)
      index == ParseUsize(Trim(o.group.v))
      matched == IF index.some THEN CapturesAt(caps.v, index.v)
                 ELSE CapturesName(caps.v, o.group.v)
  IN  IF matched.some THEN Colorize(p, colors, matched.v) ELSE <<>>

\* The closure process_text: the bytes it writes (wrote: whether it wrote at
\* all), the code it returns and the branch that handled the unit.
ProcessText(o, p, colors, pre, text, post) ==
  LET b == Branch(o)
  IN  CASE b = "group" ->
             IF Captures(p, text).some
             THEN [branch |-> b, text |-> text, code |-> 0, wrote |-> TRUE,
                   out |-> pre \o GroupText(o, p, colors, text) \o post]
             ELSE [branch |-> b, text |-> text, code |-> 0, wrote |-> FALSE,
                   out |-> <<>>]
        [] b = "no_match" ->
             IF ~IsMatch(p, text)
             THEN [branch |-> b, text |-> text, code |-> 0, wrote |-> TRUE,
                   out |-> pre \o text \o post]
             ELSE [branch |-> b, text |-> text, code |-> 0, wrote |-> FALSE,
                   out |-> <<>>]
        [] b = "default" ->
             IF IsMatch(p, text)
             THEN [branch |-> b, text |-> text, code |-> 0, wrote |-> TRUE,
                   out |-> pre
                           \o (IF o.only_matches
                               THEN OnlyMatches(p, colors, text, FindIter(p, text))
                               ELSE Colorize(p, colors, text))
                           \o post]
             ELSE [branch |-> b, text |-> text, code |-> 1, wrote |-> FALSE,
                   out |-> <<>>]

\* ------------------------------------------------------------ process_file
RECURSIVE Flatten(_)
Flatten(ss) == IF ss = <<>> THEN <<>> ELSE Head(ss) \o Flatten(Tail(ss))

\* seek(SeekFrom::Start(0)) followed by write(content): the bytes are
\* written over the old ones from the start.
Overwrite(old, new) == new \o SubSeq(old, Len(new) + 1, Len(old))

\* The units of a file and the pre/post given to process_text for each.
Units(o, p, colors, content) ==
  IF o.line_oriented
  THEN LET lines == Lines(content)
       IN  [n \in 1..Len(lines) |->
              ProcessText(o, p, colors,
                          IF n = 1 /\ StartsWith(lines[n], <<NL>>) THEN <<NL>> ELSE <<>>,
                          lines[n], <<NL>>)]
  ELSE <<ProcessText(o, p, colors, <<>>, content, <<>>)>>

Mode_GroupBeforeQuiet(o) ==
  IF o.replace.some THEN "replace"
  ELSE IF o.group.some THEN "text"
  ELSE IF o.quiet THEN "quiet"
  ELSE "text"

\* The part of process_file that handles a file: the replace block, the
\* quiet block, or the units given to process_text.
Mode(o) ==
  IF o.replace.some THEN "replace"
  ELSE IF o.quiet THEN "quiet"
  ELSE "text"

Failed(src) ==
  [tag |-> "Err", code |-> 0, out |-> <<>>, data |-> src.data, mode |-> "error",
   units |-> <<>>, orig |-> src.data, content |-> <<>>]

Done(src, mode, code, out, data, units, content) ==
  [tag |-> "Ok", code |-> code, out |-> out, data |-> data, mode |-> mode,
   units |-> units, orig |-> src.data, content |-> content]

\* process_file: tag Ok/Err, the exit code returned, the bytes written to
\* the output, the bytes the source holds afterwards, and a record of what
\* handled the file: mode, the units, the content read (orig) and the content
\* after replacement.
ProcessFile(o, p, src) ==
  LET colors == o.colors /\ (o.stdout \/ ~o.replace.some)
      m == Mode(o)
  IN  IF src.fail \in {"read", "utf8"} THEN Failed(src)
      ELSE CASE m = "replace" ->
             LET replace == IF colors THEN Paint(o.replace.v) ELSE o.replace.v
                 content == ReplaceAll(p, src.data, replace)
             IN  IF o.stdout
                 THEN Done(src, m, 0, IF ~o.quiet THEN content ELSE <<>>,
                           src.data, <<>>, content)
                 ELSE IF src.kind \in {"File", "Cursor"}
                 THEN IF src.fail = "write" THEN Failed(src)
                      ELSE Done(src, m, 0, <<>>, Overwrite(src.data, content),
                                <<>>, content)
                 ELSE Done(src, m, 0, <<>>, src.data, <<>>, content)
        [] m = "quiet" ->
             Done(src, m, IF IsMatch(p, src.data) THEN 0 ELSE 1, <<>>, src.data,
                  <<>>, src.data)
        [] m = "text" ->
             LET units == Units(o, p, colors, src.data)
             IN  Done(src, m, 0, Flatten([n \in 1..Len(units) |-> units[n].out]),
                      src.data, units, src.data)

\* ------------------------------------------------------------------ state
VARIABLES
  opts,       \* the options process_file reads from matches
  re,         \* the compiled pattern
  sources,    \* files: the Vec<Source> given to process_files
  idx,        \* position of the for loop of process_files (next file)
  exit_code,  \* the variable exit_code of process_files
  output,     \* the bytes written to output
  result,     \* what process_files returned: Running, Ok(code) or Err
  fileLog,    \* what process_file returned for each file processed so far
  sel,        \* the options get_files reads from matches
  file_names, \* the roots given to get_files
  errs,       \* the entries of the file system that cannot be read
  pc,         \* position in get_files: "start", "walk" or "done"
  root,       \* position of the loop over file_names
  pending,    \* the entries the walk of the current root has still to produce
  walked,     \* the entries the walks have produced so far
  files,      \* the Vec files of get_files
  selResult   \* what get_files returned: Running, Ok or Err

runVars == <<opts, re, sources, idx, exit_code, output, result, fileLog>>

selVars == <<sel, file_names, errs, pc, root, pending, walked, files, selResult>>

vars == <<opts, re, sources, idx, exit_code, output, result, fileLog,
          sel, file_names, errs, pc, root, pending, walked, files, selResult>>

Running == [tag |-> "Running", code |-> 0]

\* One iteration of the loop of process_files:
\*   exit_code = try!(process_file(&matches, &re, &mut file, &mut output));
ProcessNextFile ==
  /\ result = Running
  /\ idx <= Len(sources)
  /\ LET r == ProcessFile(opts, re, sources[idx])
     IN  /\ fileLog' = Append(fileLog, r)
         /\ output' = output \o r.out
         /\ sources' = [sources EXCEPT ![idx].data = r.data]
         /\ IF r.tag = "Err"
            THEN /\ result' = [tag |-> "Err", code |-> 0]
                 /\ UNCHANGED <<idx, exit_code>>
            ELSE /\ exit_code' = r.code
                 /\ idx' = idx + 1
                 /\ UNCHANGED result
  /\ UNCHANGED <<opts, re>>
  /\ UNCHANGED selVars

\* The end of process_files: output.flush() and Ok(exit_code).
Flush ==
  /\ result = Running
  /\ idx > Len(sources)
  /\ result' = [tag |-> "Ok", code |-> exit_code]
  /\ UNCHANGED <<opts, re, sources, idx, exit_code, output, fileLog>>
  /\ UNCHANGED selVars

NextRun == ProcessNextFile \/ Flush

\* ----------------------------------------------------------------- inputs
Letters == {"f", "o"}
Chars == Letters \cup {NL}

\* "foo\nbar\nfoo\n" and a text with two adjacent matches of "foo"
FooBarFoo == <<"f", "o", "o", NL, "b", "a", "r", NL, "f", "o", "o", NL>>
FooFoo == <<"f", "o", "o", "f", "o", "o">>

Contents == SeqsUpTo(Chars, MaxLen) \cup {FooBarFoo, FooFoo}

Patterns ==
  {Lit(<<"o">>), Lit(<<"f", "o">>), Lit(<<"f", "o", "o">>), Lit(<<"z", "z", "z">>),
   Plus("o"), Alt(<<"f">>, <<"o">>)}

Groups == {None, Some(<<"0">>), Some(<<"1">>), Some(<<"n">>)}

Replacements == {None, Some(<<>>), Some(<<"$0">>), Some(<<"f">>), Some(<<"o", "o">>)}

Kinds == {"Stdin", "File", "Cursor"}

OptsSet(groups, replaces) ==
  [group : groups, line_oriented : BOOLEAN, no_match : BOOLEAN,
   only_matches : BOOLEAN, quiet : BOOLEAN, replace : replaces,
   stdout : BOOLEAN, colors : BOOLEAN]

\* get_files is not called.
NoSelection ==
  /\ sel = [follow |-> FALSE, recursive |-> FALSE, all |-> FALSE,
            includes |-> <<>>, excludes |-> <<>>, exclude_dir |-> <<>>]
  /\ file_names = <<>>
  /\ errs = {}
  /\ pc = "done"
  /\ root = 0
  /\ pending = <<>>
  /\ walked = <<>>
  /\ files = <<>>
  /\ selResult = [tag |-> "Ok"]

InitCommon ==
  /\ NoSelection
  /\ idx = 1
  /\ exit_code = 0
  /\ output = <<>>
  /\ result = Running
  /\ fileLog = <<>>

\* One file, every mode: matching of every content against every pattern,
\* or replacement in every kind of source.
InitFile ==
  /\ InitCommon
  /\ re \in Patterns
  /\ \/ /\ opts \in OptsSet(Groups, {None})
        /\ \E c \in Contents :
             sources = <<[kind |-> "Cursor", data |-> c, fail |-> "none"]>>
     \/ /\ opts \in OptsSet({None, Some(<<"1">>)}, Replacements \ {None})
        /\ ~opts.line_oriented /\ ~opts.only_matches
        /\ \E c \in Contents, k \in Kinds, f \in {"none", "write"} :
             /\ f = "write" => k = "File"
             /\ sources = <<[kind |-> k, data |-> c, fail |-> f]>>

SpecFile == InitFile /\ [][NextRun]_vars

\* A run over a sequence of files, some of which fail.
RunContents == {<<"o">>, <<"f">>}
RunSources == [kind : {"File"}, data : RunContents, fail : {"none", "read", "utf8", "write"}]

InitRun ==
  /\ InitCommon
  /\ re = Lit(<<"o">>)
  /\ opts \in OptsSet({None}, {None, Some(<<"f">>)})
  /\ ~opts.only_matches /\ ~opts.colors /\ ~opts.line_oriented
  /\ \E n \in 0..MaxFiles : sources \in [1..n -> RunSources]

SpecRun == InitRun /\ [][NextRun]_vars

\* -------------------------------------------------------------- get_files
\* glob::Pattern: "*" matches any sequence of characters, "?" any single
\* character, any other character itself; a lone "[" does not compile.
PatternNew(g) == IF \E i \in 1..Len(g) : g[i] = "[" THEN None ELSE Some(g)

RECURSIVE GlobMatches(_, _)
GlobMatches(g, name) ==
  IF g = <<>> THEN name = <<>>
  ELSE IF Head(g) = "*"
  THEN GlobMatches(Tail(g), name) \/ (name # <<>> /\ GlobMatches(g, Tail(name)))
  ELSE IF Head(g) = "?"
  THEN name # <<>> /\ GlobMatches(Tail(g), Tail(name))
  ELSE name # <<>> /\ Head(name) = Head(g) /\ GlobMatches(Tail(g), Tail(name))

\* patterns.iter().any(|pattern| pattern.matches(file_name))
AnyMatches(globs, name) == \E i \in 1..Len(globs) : GlobMatches(globs[i], name)

\* The file system the walks see.  parent 0: no parent in the tree.  hasName:
\* path.file_name() is Some (it is None for "."); utf8: file_name.to_str() is
\* Some.  type is what the entry is on disk.
\*    1  .            directory
\*    2  ./.h         file          3  ./v    file
\*    4  ./x          directory     5  ./x/v  file
\*    6  ./.g         directory     7  ./.g/v file
\*    8  ./<bytes>    file, its name is not valid UTF-8
\*    9  ./l          symlink to a directory, 10 ./l/v file
\*   11  ./w          symlink to a file
\*   12  ./x/d        directory    13  ./x/d/v file
Node(parent, hasName, utf8, name, type) ==
  [parent |-> parent, hasName |-> hasName, utf8 |-> utf8, name |-> name, type |-> type]

Tree ==
  << Node(0, FALSE, FALSE, <<>>, "dir"),
     Node(1, TRUE, TRUE, <<".", "h">>, "file"),
     Node(1, TRUE, TRUE, <<"v">>, "file"),
     Node(1, TRUE, TRUE, <<"x">>, "dir"),
     Node(4, TRUE, TRUE, <<"v">>, "file"),
     Node(1, TRUE, TRUE, <<".", "g">>, "dir"),
     Node(6, TRUE, TRUE, <<"v">>, "file"),
     Node(1, TRUE, FALSE, <<"\\xff">>, "file"),
     Node(1, TRUE, TRUE, <<"l">>, "symdir"),
     Node(9, TRUE, TRUE, <<"v">>, "file"),
     Node(1, TRUE, TRUE, <<"w">>, "symfile"),
     Node(4, TRUE, TRUE, <<"d">>, "dir"),
     Node(12, TRUE, TRUE, <<"v">>, "file") >>

Nodes == DOMAIN Tree

\* entry.file_type() under follow_links(follow)
FileType(s, n) ==
  LET t == Tree[n].type
  IN  IF t = "symdir" THEN (IF s.follow THEN "dir" ELSE "symlink")
      ELSE IF t = "symfile" THEN (IF s.follow THEN "file" ELSE "symlink")
      ELSE t

FilterEntry_NoExcludeDir(s, n) ==
  IF Tree[n].hasName
  THEN IF Tree[n].utf8
       THEN \/ FileType(s, n) # "dir"
            \/ ~(~s.all /\ StartsWith(Tree[n].name, <<".">>))
       ELSE FALSE
  ELSE TRUE

\* The closure given to filter_entry: FALSE skips the entry and, for a
\* directory, everything below it.
FilterEntry(s, n) ==
  IF Tree[n].hasName
  THEN IF Tree[n].utf8
       THEN \/ FileType(s, n) # "dir"
            \/ ~(\/ AnyMatches(s.exclude_dir, Tree[n].name)
                 \/ ~s.all /\ StartsWith(Tree[n].name, <<".">>))
       ELSE FALSE
  ELSE TRUE

Selected_NoHidden(s, n) ==
  /\ Tree[n].hasName
  /\ Tree[n].utf8
  /\ FileType(s, n) = "file"
  /\ (Len(s.includes) = 0 \/ AnyMatches(s.includes, Tree[n].name))
  /\ ~AnyMatches(s.excludes, Tree[n].name)

\* The condition of the loop body under which the path is pushed to files.
Selected(s, n) ==
  /\ Tree[n].hasName
  /\ Tree[n].utf8
  /\ FileType(s, n) = "file"
  /\ (Len(s.includes) = 0 \/ AnyMatches(s.includes, Tree[n].name))
  /\ ~(\/ AnyMatches(s.excludes, Tree[n].name)
       \/ ~s.all /\ StartsWith(Tree[n].name, <<".">>))

\* max_depth(1) unless recursive.
MaxDepth(s) == IF s.recursive THEN Len(Tree) ELSE 1

\* What the walk produces for entry n at depth d: the entry, or an error when
\* its metadata cannot be read.
Item(n, d) == [node |-> n, depth |-> d, err |-> n \in errs /\ Tree[n].type # "dir"]

Children(n) == SelectSeq([i \in Nodes |-> i], LAMBDA c : Tree[c].parent = n)

\* What the walk produces after a directory entry: its children, or an error
\* when the directory cannot be read; nothing at max_depth.
Descend(s, e) ==
  IF FileType(s, e.node) = "dir" /\ e.depth < MaxDepth(s)
  THEN IF e.node \in errs
       THEN <<[node |-> e.node, depth |-> e.depth + 1, err |-> TRUE]>>
       ELSE LET cs == Children(e.node)
            IN  [i \in 1..Len(cs) |-> Item(cs[i], e.depth + 1)]
  ELSE <<>>

AllGlobs(s) == s.includes \o s.excludes \o s.exclude_dir

\* The head of get_files: stdin when there are no file names, otherwise the
\* three lists of globs are compiled (try!) and the first walk starts.
CompilePatterns ==
  /\ pc = "start"
  /\ IF Len(file_names) = 0
     THEN /\ pc' = "done"
          /\ selResult' = [tag |-> "Ok"]
          /\ UNCHANGED <<root, pending>>
     ELSE IF \E i \in 1..Len(AllGlobs(sel)) : ~PatternNew(AllGlobs(sel)[i]).some
     THEN /\ pc' = "done"
          /\ selResult' = [tag |-> "Err"]
          /\ UNCHANGED <<root, pending>>
     ELSE /\ pc' = "walk"
          /\ root' = 1
          /\ pending' = <<Item(file_names[1], 0)>>
          /\ UNCHANGED selResult
  /\ UNCHANGED <<sel, file_names, errs, walked, files>>
  /\ UNCHANGED runVars

\* One entry of the walk: an error ends get_files (try!), an entry refused by
\* filter_entry is skipped with its subtree, any other entry is given to the
\* loop body, which pushes it to files when it is selected.
WalkEntry ==
  /\ pc = "walk"
  /\ pending # <<>>
  /\ LET e == Head(pending)
         entry == [root |-> file_names[root], node |-> e.node]
     IN  IF e.err
         THEN /\ pc' = "done"
              /\ selResult' = [tag |-> "Err"]
              /\ pending' = <<>>
              /\ UNCHANGED <<walked, files>>
         ELSE /\ walked' = Append(walked, entry)
              /\ UNCHANGED <<pc, selResult>>
              /\ IF ~FilterEntry(sel, e.node)
                 THEN /\ pending' = Tail(pending)
                      /\ UNCHANGED files
                 ELSE /\ pending' = Descend(sel, e) \o Tail(pending)
                      /\ files' = IF Selected(sel, e.node)
                                  THEN Append(files, entry) ELSE files
  /\ UNCHANGED <<sel, file_names, errs, root>>
  /\ UNCHANGED runVars

\* The walk of a root is exhausted: the loop goes to the next file name.
NextRoot ==
  /\ pc = "walk"
  /\ pending = <<>>
  /\ root < Len(file_names)
  /\ root' = root + 1
  /\ pending' = <<Item(file_names[root + 1], 0)>>
  /\ UNCHANGED <<sel, file_names, errs, pc, walked, files, selResult>>
  /\ UNCHANGED runVars

\* Ok(files)
ReturnFiles ==
  /\ pc = "walk"
  /\ pending = <<>>
  /\ root = Len(file_names)
  /\ pc' = "done"
  /\ selResult' = [tag |-> "Ok"]
  /\ UNCHANGED <<sel, file_names, errs, root, pending, walked, files>>
  /\ UNCHANGED runVars

NextSel == CompilePatterns \/ WalkEntry \/ NextRoot \/ ReturnFiles

\* process_files is not called.
NoRun ==
  /\ opts = [group |-> None, line_oriented |-> FALSE, no_match |-> FALSE,
             only_matches |-> FALSE, quiet |-> FALSE, replace |-> None,
             stdout |-> FALSE, colors |-> FALSE]
  /\ re = Lit(<<"o">>)
  /\ sources = <<>>
  /\ idx = 1
  /\ exit_code = 0
  /\ output = <<>>
  /\ result = [tag |-> "Ok", code |-> 0]
  /\ fileLog = <<>>

IncludeChoices == {<<>>, <<(<<"v">>)>>, <<(<<"*">>)>>, <<(<<"[">>)>>}
ExcludeChoices == {<<>>, <<(<<"v">>)>>, <<(<<".", "*">>)>>}
ExcludeDirChoices == {<<>>, <<(<<"x">>)>>, <<(<<"?">>), (<<"l">>)>>}
RootChoices == {1, 4, 5, 6}
ErrChoices == {{}, {4}, {11}}

InitSel ==
  /\ NoRun
  /\ sel \in [follow : BOOLEAN, recursive : BOOLEAN, all : BOOLEAN,
              includes : IncludeChoices, excludes : ExcludeChoices,
              exclude_dir : ExcludeDirChoices]
  /\ \E n \in 0..MaxRoots : file_names \in [1..n -> RootChoices]
  /\ errs \in ErrChoices
  /\ pc = "start"
  /\ root = 0
  /\ pending = <<>>
  /\ walked = <<>>
  /\ files = <<>>
  /\ selResult = [tag |-> "Running"]

SpecSel == InitSel /\ [][NextSel]_vars

\* The whole program: either operation, from any of its inputs.
Init == InitFile \/ InitRun \/ InitSel
Next == NextRun \/ NextSel
Spec == Init /\ [][Next]_vars

\* ----------------------------------------------------------------- claims
Finished == result # Running
FileMatched(i) == fileLog[i].tag = "Ok" /\ fileLog[i].code = 0

\* C1: the result of a run over a sequence of files is the logical OR of the
\* per-file results: the run returns 0 (matches found) iff at least one of
\* its files returned 0, wherever that file is in the sequence.
C1_RunIsOrOfFiles ==
  (result.tag = "Ok" /\ Len(sources) > 0) =>
    (result.code = 0 <=> \E i \in 1..Len(fileLog) : FileMatched(i))

\* C2: a file that fails does not abort the run: when the run has ended,
\* every file after a failed one has been processed, with the result it has
\* on its own.
C2_FailureDoesNotAbort ==
  Finished =>
    \A k \in 1..Len(fileLog) :
      fileLog[k].tag = "Err" =>
        \A j \in (k + 1)..Len(sources) :
          /\ j <= Len(fileLog)
          /\ fileLog[j] = ProcessFile(opts, re, [sources[j] EXCEPT !.data = fileLog[j].orig])

\* C3: without quiet and replace, a file's result is 'found' (0) iff one of
\* its units had outcome Matched, and the run returns 1 when no unit of any
\* file matched and 0 when one did.
UnitMatched(i) == \E n \in 1..Len(fileLog[i].units) : fileLog[i].units[n].code = 0

C3_FoundIffUnitMatched ==
  (~opts.quiet /\ ~opts.replace.some) =>
    /\ \A i \in 1..Len(fileLog) :
         fileLog[i].tag = "Ok" => (fileLog[i].code = 0 <=> UnitMatched(i))
    /\ result.tag = "Ok" =>
         (result.code = 0 <=> \E i \in 1..Len(fileLog) : UnitMatched(i))

\* C4: in replace mode the file's result is 'changed' (0) iff the content
\* after the substitution differs from the content read: a pattern that does
\* not occur, or a replacement equal to every match, gives 'unchanged' (1).
C4_ChangedIffContentDiffers ==
  \A i \in 1..Len(fileLog) :
    fileLog[i].mode = "replace" =>
      (fileLog[i].code = 0 <=> fileLog[i].content # fileLog[i].orig)

\* C5: after an in-place replacement the source holds exactly the new
\* content.
C5_SourceHoldsNewContent ==
  \A i \in 1..Len(fileLog) :
    (fileLog[i].mode = "replace" /\ ~opts.stdout
       /\ sources[i].kind \in {"File", "Cursor"}) =>
      sources[i].data = fileLog[i].content

\* C6: with quiet and without replace nothing is written, a file's result is
\* 'found' iff the pattern matches in its content, and a run over files none
\* of which contains the pattern returns 1 (no matches found).
C6_QuietExistenceOnly ==
  (opts.quiet /\ ~opts.replace.some) =>
    /\ output = <<>>
    /\ \A i \in 1..Len(fileLog) :
         fileLog[i].tag = "Ok" => (fileLog[i].code = 0 <=> IsMatch(re, fileLog[i].orig))
    /\ (Finished /\ \A i \in 1..Len(sources) : ~IsMatch(re, sources[i].data)) =>
         result = [tag |-> "Ok", code |-> 1]

\* C7: in inverted-match mode a unit is written iff the pattern does not
\* match it, what is written is the text of the unit unchanged, and the unit
\* has outcome Matched (0) iff the pattern does not match it.
C7_InvertedMatch ==
  \A i \in 1..Len(fileLog) :
    \A n \in 1..Len(fileLog[i].units) :
      LET u == fileLog[i].units[n]
      IN  u.branch = "no_match" =>
            /\ u.wrote <=> ~IsMatch(re, u.text)
            /\ u.wrote => u.out = u.text \o (IF opts.line_oriented THEN <<NL>> ELSE <<>>)
            /\ u.code = 0 <=> ~IsMatch(re, u.text)

\* What handled file i: the replace block, the quiet block, or the branches
\* of process_text that handled its units.
DecidedBy(i) ==
  IF fileLog[i].mode = "text"
  THEN {fileLog[i].units[n].branch : n \in 1..Len(fileLog[i].units)}
  ELSE {fileLog[i].mode}

InSeq(x, q) == \E k \in 1..Len(q) : q[k] = x
Entry(r, n) == [root |-> r, node |-> n]
HiddenName(n) == ~sel.all /\ StartsWith(Tree[n].name, <<".">>)

PrunedDir(n) ==
  /\ FileType(sel, n) = "dir"
  /\ Tree[n].hasName /\ Tree[n].utf8
  /\ AnyMatches(sel.exclude_dir, Tree[n].name) \/ HiddenName(n)

\* The entries from n up to the root r of its walk.
RECURSIVE PathUp(_, _)
PathUp(n, r) == IF n = r \/ n = 0 THEN {n} ELSE {n} \cup PathUp(Tree[n].parent, r)

\* C9: a directory whose base name matches an exclude_dir glob, or is hidden
\* while all is not set, is pruned before descent: the walk produces no entry
\* below it and yields no file of its subtree, whatever the file's name.
C9_PrunedBeforeDescent ==
  /\ \A k \in 1..Len(walked) :
       walked[k].node # walked[k].root =>
         \A d \in PathUp(Tree[walked[k].node].parent, walked[k].root) : ~PrunedDir(d)
  /\ \A j \in 1..Len(files) :
       \A d \in PathUp(files[j].node, files[j].root) : ~PrunedDir(d)

\* C9 witness: a recursive walk of "." with exclude_dir x and include v has
\* ended; it met x, yielded ./v and did not yield ./x/v or ./x/d/v.
C9_Witness ==
  /\ pc = "done" /\ selResult.tag = "Ok"
  /\ sel.recursive /\ sel.exclude_dir = <<(<<"x">>)>> /\ sel.includes = <<(<<"v">>)>>
  /\ sel.excludes = <<>>
  /\ InSeq(Entry(1, 4), walked)
  /\ InSeq(Entry(1, 3), files)
  /\ ~InSeq(Entry(1, 5), files) /\ ~InSeq(Entry(1, 13), files)

\* The unit records of all the files processed so far.
AllUnits ==
  UNION {{fileLog[i].units[n] : n \in 1..Len(fileLog[i].units)} :
           i \in 1..Len(fileLog)}

EndsWithNL(t) == t # <<>> /\ t[Len(t)] = NL

\* C11: every record written in match mode ends with a newline, and where the
\* emitted text is the unit's own text (inverted match, or default without
\* colors and only-matches) what is written is that text followed by one
\* newline iff the text does not already end with one, in line-oriented and in
\* whole-file mode.
C11_NewlineNormalized ==
  \A u \in AllUnits :
    u.wrote =>
      /\ EndsWithNL(u.out)
      /\ (\/ u.branch = "no_match"
          \/ u.branch = "default" /\ ~opts.only_matches /\ ~opts.colors) =>
           u.out = u.text \o (IF EndsWithNL(u.text) THEN <<>> ELSE <<NL>>)

\* Each span of spans as a record of its own: its (colorized) text and a
\* newline.
RECURSIVE SpanRecords(_, _, _, _)
SpanRecords(p, colors, t, spans) ==
  IF spans = <<>> THEN <<>>
  ELSE Colorize(p, colors, SubSeq(t, Head(spans)[1], Head(spans)[2])) \o <<NL>>
         \o SpanRecords(p, colors, t, Tail(spans))

\* C12: in only-matches mode a unit the pattern matches is written as one
\* record per match span, left to right, each the matched text followed by a
\* newline; a unit the pattern does not match writes nothing.
C12_OnlyMatchesOneRecordPerSpan ==
  \A u \in AllUnits :
    (u.branch = "default" /\ opts.only_matches) =>
      /\ u.wrote <=> IsMatch(re, u.text)
      /\ u.out = SpanRecords(re, opts.colors, u.text, FindIter(re, u.text))

\* The capture the group option names: a number first, a name otherwise.
ResolvedCapture(text) ==
  LET index == ParseUsize(Trim(opts.group.v))
  IN  IF index.some THEN CapturesAt(Captures(re, text).v, index.v)
      ELSE CapturesName(Captures(re, text).v, opts.group.v)

\* C13: in group-extraction mode a unit the pattern does not match has outcome
\* NotMatched (1) and writes nothing; a unit it matches has outcome Matched
\* (0); and bytes are written only when the resolved capture participated in
\* the match, and are then the captured text followed by a newline.
C13_GroupExtraction ==
  \A u \in AllUnits :
    u.branch = "group" =>
      IF ~IsMatch(re, u.text)
      THEN u.code = 1 /\ ~u.wrote /\ u.out = <<>>
      ELSE /\ u.code = 0
           /\ IF ResolvedCapture(u.text).some
              THEN u.out = Colorize(re, opts.colors, ResolvedCapture(u.text).v)
                             \o <<NL>>
              ELSE u.out = <<>>

\* The depth of n in the walk of root r, -1 when n is not below r.
RECURSIVE WalkDepth(_, _)
WalkDepth(r, n) ==
  IF n = r THEN 0
  ELSE IF Tree[n].parent = 0 THEN -1
  ELSE LET d == WalkDepth(r, Tree[n].parent)
       IN  IF d < 0 THEN -1 ELSE d + 1

\* n is an entry of the walk of r that no pruning, depth limit or failing
\* entry keeps the walk from: every directory from r to its parent is kept by
\* the filter, within max_depth, and readable.
RECURSIVE Reachable(_, _)
Reachable(r, n) ==
  \/ n = r
  \/ /\ WalkDepth(r, n) >= 1
     /\ Reachable(r, Tree[n].parent)
     /\ FileType(sel, Tree[n].parent) = "dir"
     /\ FilterEntry(sel, Tree[n].parent)
     /\ WalkDepth(r, Tree[n].parent) < MaxDepth(sel)
     /\ Tree[n].parent \notin errs

\* C14: an entry that cannot be read does not abort file selection: when the
\* globs compile, get_files returns Ok and has yielded every selected file
\* that is not the failing entry or below it.
C14_TraversalErrorNotFatal ==
  (/\ pc = "done"
   /\ \A i \in 1..Len(AllGlobs(sel)) : PatternNew(AllGlobs(sel)[i]).some) =>
    /\ selResult.tag = "Ok"
    /\ \A k \in 1..Len(file_names) :
         \A n \in Nodes :
           (Reachable(file_names[k], n) /\ n \notin errs /\ Selected(sel, n)) =>
             InSeq(Entry(file_names[k], n), files)

====
